---------------------------- MODULE Spec2Model ----------------------------
(***************************************************************************)
(* A model of src/generator.cpp (Generatorrunner's Generator class).       *)
(*                                                                         *)
(* Text (QString) is a sequence of one-character strings, so that the      *)
(* index arithmetic of the code (lastIndexOf, remove, chop, endsWith) is   *)
(* computed as the code computes it.  The null/empty QString is << >>.     *)
(*                                                                         *)
(* Specifications:                                                         *)
(*   Spec       Generator::generate and the two counters                   *)
(*   SpecTpl    Generator::replaceTemplateVariables                        *)
(*   SpecFmt    formatCode                                                 *)
(*   SpecTr     Generator::translateType                                   *)
(*   SpecType   Generator::minimalConstructor on an AbstractMetaType       *)
(*   SpecClass  Generator::minimalConstructor on an AbstractMetaClass      *)
(***************************************************************************)
EXTENDS Integers, Sequences, FiniteSets, TLC

VARIABLES
    \* Generator::generate
    classList,            \* m_d->apiextractor->classes()
    numGenerated,         \* m_d->numGenerated
    numGeneratedWritten,  \* m_d->numGeneratedWritten
    pc,                   \* position inside generate()
    idx,                  \* position of the foreach over the classes
    fileDone,             \* what fileOut.done() is about to report
    hookLog,              \* history: the hook calls of the current run
    runStartGenerated,    \* history: numGenerated when the run began
    runStartWritten,      \* history: numGeneratedWritten when the run began
    writtenThisRun,       \* history: classes whose sink reported a change
    runs,                 \* history: completed runs
    \* the pure functions: their input and their result
    input,
    output

genVars == <<classList, numGenerated, numGeneratedWritten, pc, idx, fileDone,
             hookLog, runStartGenerated, runStartWritten, writtenThisRun, runs>>
pureVars == <<input, output>>
vars == <<genVars, pureVars>>

\* an absent value (a null pointer, a result not computed yet)
NoValue == [none |-> TRUE]
\* a call that did not return
NoReturn == [noReturn |-> TRUE]
\* a computed result
Returned(v) == [value |-> v]

-----------------------------------------------------------------------------
(* QString operations *)

Min(a, b) == IF a < b THEN a ELSE b
Max(a, b) == IF a > b THEN a ELSE b

\* QChar::isSpace
isSpace(c) == c \in {" ", "\t", "\n", "\r"}

\* QString::startsWith
startsWith(s, p) == Len(s) >= Len(p) /\ SubSeq(s, 1, Len(p)) = p

\* QString::endsWith
endsWith(s, p) == Len(s) >= Len(p) /\ SubSeq(s, Len(s) - Len(p) + 1, Len(s)) = p

\* does p occur in s at the 0-based position i
occursAt(s, p, i) == i >= 0 /\ i + Len(p) <= Len(s) /\ SubSeq(s, i + 1, i + Len(p)) = p

\* QString::indexOf(p, from): 0-based, -1 when p does not occur
indexOfFrom(s, p, from) ==
    LET hits == {i \in from..(Len(s) - Len(p)) : occursAt(s, p, i)}
    IN  IF hits = {} THEN -1 ELSE CHOOSE i \in hits : \A j \in hits : i <= j

\* QString::lastIndexOf(p): 0-based, -1 when p does not occur
lastIndexOf(s, p) ==
    LET hits == {i \in 0..(Len(s) - Len(p)) : occursAt(s, p, i)}
    IN  IF hits = {} THEN -1 ELSE CHOOSE i \in hits : \A j \in hits : i >= j

\* QString::contains
contains(s, p) == indexOfFrom(s, p, 0) # -1

\* QString::left
left(s, n) == IF n < 0 \/ n >= Len(s) THEN s ELSE SubSeq(s, 1, n)

\* QString::chop
chop(s, n) == IF n >= Len(s) THEN << >> ELSE SubSeq(s, 1, Len(s) - n)

\* QString::remove(pos, len): a negative pos counts from the end of the string
remove(s, pos, len) ==
    LET p == IF pos < 0 THEN pos + Len(s) ELSE pos
    IN  IF p < 0 \/ p >= Len(s) THEN s
        ELSE IF len >= Len(s) - p THEN SubSeq(s, 1, p)
        ELSE IF len > 0 THEN SubSeq(s, 1, p) \o SubSeq(s, p + len + 1, Len(s))
        ELSE s

\* QString::trimmed
RECURSIVE trimLeft(_)
trimLeft(s) == IF s # << >> /\ isSpace(Head(s)) THEN trimLeft(Tail(s)) ELSE s
RECURSIVE trimRight(_)
trimRight(s) ==
    IF s # << >> /\ isSpace(s[Len(s)]) THEN trimRight(SubSeq(s, 1, Len(s) - 1)) ELSE s
trimmed(s) == trimLeft(trimRight(s))

\* QString::replace(before, after): every occurrence, left to right; the text
\* put in is not scanned again
RECURSIVE replaceFrom(_, _, _, _)
replaceFrom(s, before, after, from) ==
    LET i == indexOfFrom(s, before, from)
    IN  IF before = << >> \/ i = -1 THEN s
        ELSE replaceFrom(SubSeq(s, 1, i) \o after \o SubSeq(s, i + Len(before) + 1, Len(s)),
                         before, after, i + Len(after))
replace(s, before, after) == replaceFrom(s, before, after, 0)

\* QString::split(sep) for a one-character separator
RECURSIVE split(_, _)
split(s, sep) ==
    LET i == indexOfFrom(s, <<sep>>, 0)
    IN  IF i = -1 THEN <<s>>
        ELSE <<SubSeq(s, 1, i)>> \o split(SubSeq(s, i + 2, Len(s)), sep)

\* QStringList::join
RECURSIVE join(_, _)
join(list, sep) ==
    IF list = << >> THEN << >>
    ELSE IF Len(list) = 1 THEN list[1]
    ELSE list[1] \o sep \o join(Tail(list), sep)

\* QString::number for a non-negative int: its decimal digits
Digit(d) == <<"0", "1", "2", "3", "4", "5", "6", "7", "8", "9">>[d + 1]
RECURSIVE number(_)
number(n) == IF n < 10 THEN <<Digit(n)>> ELSE number(n \div 10) \o <<Digit(n % 10)>>

-----------------------------------------------------------------------------
(* Generator::generate *)

MaxClasses == 3
MaxRuns == 2

\* A class as generate() sees it: the GenerateTargetLang bit of its type
\* entry's codeGeneration(), and whether fileNameForClass gives a name.
ClassEntities == [targetLang : BOOLEAN, hasFileName : BOOLEAN]

ClassLists == UNION {[1..n -> ClassEntities] : n \in 0..MaxClasses}

shouldGenerateAlways(cls) == TRUE
\* Generator::shouldGenerate
shouldGenerate(cls) == cls.targetLang

fileNameIsNullNever(cls) == FALSE
\* fileNameForClass(cls).isNull()
fileNameIsNull(cls) == ~cls.hasFileName

PureIdle == input = NoValue /\ output = NoValue

GenIdle ==
    /\ classList = << >>
    /\ numGenerated = 0
    /\ numGeneratedWritten = 0
    /\ pc = "idle"
    /\ idx = 0
    /\ fileDone = FALSE
    /\ hookLog = << >>
    /\ runStartGenerated = 0
    /\ runStartWritten = 0
    /\ writtenThisRun = 0
    /\ runs = 0

InitGen ==
    /\ classList \in ClassLists
    /\ numGenerated = 0
    /\ numGeneratedWritten = 0
    /\ pc = "idle"
    /\ idx = 0
    /\ fileDone = FALSE
    /\ hookLog = << >>
    /\ runStartGenerated = 0
    /\ runStartWritten = 0
    /\ writtenThisRun = 0
    /\ runs = 0
    /\ PureIdle

\* generate() is called: the foreach starts at the first class
GenerateBegin ==
    /\ pc = "idle"
    /\ runs < MaxRuns
    /\ pc' = "loop"
    /\ idx' = 1
    /\ hookLog' = << >>
    /\ runStartGenerated' = numGenerated
    /\ runStartWritten' = numGeneratedWritten
    /\ writtenThisRun' = 0
    /\ UNCHANGED <<classList, numGenerated, numGeneratedWritten, fileDone, runs, pureVars>>

\* if (!shouldGenerate(cls)) continue;  if (fileName.isNull()) continue;
SkipClass ==
    /\ pc = "loop"
    /\ idx <= Len(classList)
    /\ (~shouldGenerate(classList[idx]) \/ fileNameIsNull(classList[idx]))
    /\ idx' = idx + 1
    /\ UNCHANGED <<classList, numGenerated, numGeneratedWritten, pc, fileDone, hookLog,
                   runStartGenerated, runStartWritten, writtenThisRun, runs, pureVars>>

\* FileOut fileOut(...); generateClass(fileOut.stream, cls); then fileOut.done()
\* reports whether the content of the file changed
GenerateClass ==
    /\ pc = "loop"
    /\ idx <= Len(classList)
    /\ shouldGenerate(classList[idx])
    /\ ~fileNameIsNull(classList[idx])
    /\ hookLog' = Append(hookLog, [hook |-> "generateClass", cls |-> idx])
    /\ \E changed \in BOOLEAN :
          /\ fileDone' = changed
          /\ writtenThisRun' = IF changed THEN writtenThisRun + 1 ELSE writtenThisRun
    /\ pc' = "done"
    /\ UNCHANGED <<classList, numGenerated, numGeneratedWritten, idx,
                   runStartGenerated, runStartWritten, runs, pureVars>>

\* if (fileOut.done()) ++m_d->numGeneratedWritten;
CountWritten ==
    /\ pc = "done"
    /\ numGeneratedWritten' = IF fileDone THEN numGeneratedWritten + 1 ELSE numGeneratedWritten
    /\ pc' = "count"
    /\ UNCHANGED <<classList, numGenerated, idx, fileDone, hookLog,
                   runStartGenerated, runStartWritten, writtenThisRun, runs, pureVars>>

\* ++m_d->numGenerated; and the foreach moves on
CountGenerated ==
    /\ pc = "count"
    /\ numGenerated' = numGenerated + 1
    /\ idx' = idx + 1
    /\ pc' = "loop"
    /\ UNCHANGED <<classList, numGeneratedWritten, fileDone, hookLog,
                   runStartGenerated, runStartWritten, writtenThisRun, runs, pureVars>>

\* finishGeneration(); and generate() returns
FinishGeneration ==
    /\ pc = "loop"
    /\ idx > Len(classList)
    /\ hookLog' = Append(hookLog, [hook |-> "finishGeneration", cls |-> 0])
    /\ pc' = "idle"
    /\ runs' = runs + 1
    /\ UNCHANGED <<classList, numGenerated, numGeneratedWritten, idx, fileDone,
                   runStartGenerated, runStartWritten, writtenThisRun, pureVars>>

NextGen ==
    \/ GenerateBegin
    \/ SkipClass
    \/ GenerateClass
    \/ CountWritten
    \/ CountGenerated
    \/ FinishGeneration

Spec == InitGen /\ [][NextGen]_vars

-----------------------------------------------------------------------------
(* The type model the generator reads: TypeEntry and AbstractMetaType *)

\* text literals
Text_const == <<"c", "o", "n", "s", "t">>
Text_constSp == <<"c", "o", "n", "s", "t", " ">>
Text_void == <<"v", "o", "i", "d">>
Text_int == <<"i", "n", "t">>
Text_scope == <<":", ":">>
Text_brackets == <<"[", "]">>
Text_call == <<"(", ")">>
Text_commaSp == <<",", " ">>

\* A type entry: its kind, its qualifiedCppName and (complex and user-defined
\* primitive entries) its defaultConstructor.
Entry(kind, name, ctor) == [kind |-> kind, name |-> name, defaultConstructor |-> ctor]

\* TypeEntry::isCppPrimitive / isPrimitive / isEnum / isFlags / isComplex / isVoid
isCppPrimitive(e) == e.kind = "cppPrimitive"
isPrimitive(e) == e.kind \in {"cppPrimitive", "userPrimitive"}
isEnumEntry(e) == e.kind = "enum"
isFlagsEntry(e) == e.kind = "flags"
isComplex(e) == e.kind \in {"object", "value"}
isVoidEntry(e) == e.kind = "void"

\* An AbstractMetaType.  pattern is its usage pattern, which isObject(),
\* isContainer(), isNativePointer(), isValuePointer(), isEnum(), isFlags() and
\* isArray() read; entry names its type entry in the model's entry table.
MetaType(entry, pattern, indirections, reference, constant) ==
    [entry |-> entry, pattern |-> pattern, indirections |-> indirections,
     reference |-> reference, constant |-> constant]

\* AbstractMetaType::cppSignature: const, the name, the stars, the reference
Stars(n) == [i \in 1..n |-> "*"]
cppSignature(m, t) ==
    (IF t.constant THEN Text_constSp ELSE << >>)
        \o m.entries[t.entry].name
        \o Stars(t.indirections)
        \o (IF t.reference THEN <<"&">> ELSE << >>)

-----------------------------------------------------------------------------
(* Generator::translateType *)

constLen == 5

\* remove only the last const (avoid remove template const)
removeLastConst(s0) ==
    LET index == lastIndexOf(s0, Text_const)
    IN  IF index >= Len(s0) - (constLen + 1) THEN remove(s0, index, constLen) ELSE s0

RECURSIVE translateType(_, _, _, _)
translateType(m, cType0, context, options) ==
    LET cType == IF /\ context # NoValue
                    /\ cType0 # NoValue
                    /\ context.isGenericClass
                    /\ cType0.originalTemplateType # NoValue
                 THEN cType0.originalTemplateType
                 ELSE cType0
    IN  IF cType = NoValue THEN Text_void
        ELSE IF cType.pattern = "array"
            THEN translateType(m, cType.arrayElementType, context, options) \o Text_brackets
        ELSE IF "EnumAsInts" \in options /\ cType.pattern \in {"enum", "flags"}
            THEN Text_int
        ELSE IF "OriginalName" \in options
            THEN LET s1 == trimmed(cType.originalTypeDescription)
                     s2 == IF "ExcludeReference" \in options /\ endsWith(s1, <<"&">>)
                           THEN left(s1, Len(s1) - 1)
                           ELSE s1
                 IN  IF "ExcludeConst" \in options THEN removeLastConst(s2) ELSE s2
        ELSE IF "ExcludeConst" \in options \/ "ExcludeReference" \in options
            THEN LET copyType ==
                        [cType EXCEPT
                            !.constant = IF "ExcludeConst" \in options THEN FALSE ELSE @,
                            !.reference = IF "ExcludeReference" \in options THEN FALSE ELSE @]
                     e == m.entries[copyType.entry]
                 IN  IF ~isVoidEntry(e) /\ ~isCppPrimitive(e)
                     THEN Text_scope \o cppSignature(m, copyType)
                     ELSE cppSignature(m, copyType)
        ELSE cppSignature(m, cType)

\* the entries that do not depend on the classes of a model
BaseEntries ==
    [ int |-> Entry("cppPrimitive", Text_int, << >>),
      void |-> Entry("void", Text_void, << >>),
      E |-> Entry("enum", <<"E">>, << >>),
      F |-> Entry("flags", <<"F">>, << >>),
      P |-> Entry("userPrimitive", <<"P">>, << >>),
      S |-> Entry("userPrimitive", <<"S">>, <<"S", "(", "1", ")">>),
      V |-> Entry("container", <<"V", "<", "i", ">">>, << >>),
      N |-> Entry("typesystem", <<"N">>, << >>),
      W |-> Entry("object", <<"W">>, << >>) ]

TrModel == [entries |-> BaseEntries, classes |-> << >>]

Options == SUBSET {"EnumAsInts", "OriginalName", "ExcludeConst", "ExcludeReference"}

\* original type descriptions as the parser records them: an optional leading
\* const, the type, an optional trailing const, an optional pointer or
\* reference mark, and blanks around them
DescTypes ==
    { Text_int, <<"T">>, <<"L", "<", "T", ">">>,
      <<"L", "<", "T", " ">> \o Text_const \o <<">">>,
      <<"L", "<">> \o Text_constSp \o <<"T", ">">> }
DescMarks == {<< >>, <<"*">>, <<"&">>, <<" ", "*">>, <<" ", "&">>}
Descriptions ==
    { lead \o t \o trail \o mark \o blank :
        lead \in {<< >>, Text_constSp},
        t \in DescTypes,
        trail \in {<< >>, <<" ">> \o Text_const},
        mark \in DescMarks,
        blank \in {<< >>, <<" ">>} }

\* a type as translateType reads it
TrType(entry, pattern, indirections, reference, constant, desc, elem, tmpl) ==
    [entry |-> entry, pattern |-> pattern, indirections |-> indirections,
     reference |-> reference, constant |-> constant,
     originalTypeDescription |-> desc, arrayElementType |-> elem,
     originalTemplateType |-> tmpl]

TrPlainInt == TrType("int", "primitive", 0, FALSE, FALSE, Text_int, NoValue, NoValue)
TrTemplateParam == TrType("P", "primitive", 0, FALSE, FALSE, <<"T">>, NoValue, NoValue)

TrTypes ==
    {TrType("int", "primitive", 0, FALSE, FALSE, d, NoValue, NoValue) : d \in Descriptions}
    \cup {TrType("W", "object", 1, r, c, <<"W">>, NoValue, NoValue) : r \in BOOLEAN, c \in BOOLEAN}
    \cup {TrType("W", "value", 0, TRUE, TRUE, d, NoValue, NoValue) : d \in Descriptions}
    \cup {TrType("E", "enum", 0, FALSE, c, d, NoValue, NoValue) :
             c \in BOOLEAN, d \in {<<"E">>, <<"E", " ">> \o Text_const}}
    \cup {TrType("F", "flags", 0, FALSE, FALSE, <<"F">>, NoValue, NoValue)}
    \cup {TrType("void", "primitive", 0, FALSE, c, Text_void, NoValue, NoValue) : c \in BOOLEAN}
    \cup {TrType("int", "array", 0, FALSE, FALSE, << >>, e, NoValue) :
             e \in {NoValue, TrPlainInt,
                    TrType("E", "enum", 0, FALSE, TRUE, <<"E">>, NoValue, NoValue)}}
    \cup {TrType("int", "primitive", 0, r, TRUE, Text_constSp \o Text_int, NoValue, TrTemplateParam) :
             r \in BOOLEAN}
    \cup {NoValue}

TrContexts == {NoValue, [isGenericClass |-> TRUE], [isGenericClass |-> FALSE]}

InitTr ==
    /\ GenIdle
    /\ input \in [op : {"translateType"}, cType : TrTypes, context : TrContexts,
                  options : Options]
    /\ output = NoValue

TranslateType ==
    /\ input # NoValue /\ input.op = "translateType"
    /\ output = NoValue
    /\ output' = Returned(translateType(TrModel, input.cType, input.context, input.options))
    /\ UNCHANGED <<genVars, input>>

NextTr == TranslateType

SpecTr == InitTr /\ [][NextTr]_vars

-----------------------------------------------------------------------------
(* Generator::minimalConstructor *)

Text_null == <<"0">>
Text_castOpen == <<"(", "(">>
Text_castScopeOpen == <<"(", "(", ":", ":">>
Text_castClose == <<")", "0", ")">>
Text_ptrCastClose == <<"*", ")", "0", ")">>

\* The call never returns: it has called itself, on the same class, before
\* returning.  The function reads nothing but the immutable model, so the
\* inner call repeats the outer one, and the recursion ends only when the
\* stack is exhausted.
Diverges == <<"NO RETURN">>

\* Generator::isObjectType(const AbstractMetaType*)
isObjectType(t) == t.pattern \in {"object", "qobject"}

isPointerMarkersOnly(t) == t.pattern = "nativePointer" \/ t.pattern = "valuePointer"
\* Generator::isPointer
isPointer(t) ==
    t.indirections > 0 \/ t.pattern = "nativePointer" \/ t.pattern = "valuePointer"

\* AbstractMetaClassList::findClass(const TypeEntry*)
findClass(m, entry) == IF entry \in DOMAIN m.classes THEN m.classes[entry] ELSE NoValue

\* minimalConstructor(const TypeEntry*)
minimalConstructorEntry(e) ==
    IF e = NoValue THEN << >>
    ELSE IF isCppPrimitive(e) THEN Text_castOpen \o e.name \o Text_castClose
    ELSE IF isEnumEntry(e) \/ isFlagsEntry(e) THEN Text_castScopeOpen \o e.name \o Text_castClose
    ELSE IF isPrimitive(e)
        THEN IF e.defaultConstructor = << >>
             THEN Text_scope \o e.name \o Text_call
             ELSE e.defaultConstructor
    ELSE << >>

\* the container branch of minimalConstructor(const AbstractMetaType*)
containerConstructor(sig) ==
    IF endsWith(sig, <<"*">>) THEN Text_null
    ELSE LET c1 == IF startsWith(sig, Text_constSp) THEN remove(sig, 0, 6) ELSE sig
             c2 == IF endsWith(c1, <<"&">>) THEN trimmed(chop(c1, 1)) ELSE c1
         IN  Text_scope \o c2 \o Text_call

\* is the constructor one the search considers
isCandidate(ctor) == ~(ctor.isUserAdded \/ ctor.isPrivate \/ ctor.isCopyConstructor)

\* the first foreach over the constructors: maxArgs
RECURSIVE computeMaxArgs(_, _, _)
computeMaxArgs(constructors, k, maxArgs) ==
    IF k > Len(constructors) THEN maxArgs
    ELSE IF ~isCandidate(constructors[k]) THEN computeMaxArgs(constructors, k + 1, maxArgs)
    ELSE IF Len(constructors[k].arguments) = 0 THEN 0
    ELSE computeMaxArgs(constructors, k + 1, Max(maxArgs, Len(constructors[k].arguments)))

\* the order in which the first pass visits the constructors: by number of
\* arguments from 1 to maxArgs, then by declaration
RECURSIVE visitOrder(_, _, _)
visitOrder(constructors, i, maxArgs) ==
    IF i > maxArgs THEN << >>
    ELSE SelectSeq([k \in 1..Len(constructors) |-> k],
                   LAMBDA k : isCandidate(constructors[k])
                                 /\ Len(constructors[k].arguments) = i)
            \o visitOrder(constructors, i + 1, maxArgs)

defaultValueArgsWhenDifferent(arg) ==
    IF arg.defaultValueExpression # arg.originalDefaultValueExpression
    THEN <<arg.defaultValueExpression>>
    ELSE << >>
\* what an argument with an original default value adds to args
defaultValueArgs(arg) ==
    IF /\ arg.defaultValueExpression # << >>
       /\ arg.defaultValueExpression # arg.originalDefaultValueExpression
    THEN <<arg.defaultValueExpression>>
    ELSE << >>

\* QString("::%1(%2)").arg(metaClass->qualifiedCppName()).arg(args.join(", "))
constructorCall(cls, args) ==
    Text_scope \o cls.qualifiedCppName \o <<"(">> \o join(args, Text_commaSp) \o <<")">>

Args(list) == [diverges |-> FALSE, args |-> list]
ArgsDiverge == [diverges |-> TRUE, args |-> << >>]

RECURSIVE minimalConstructorType(_, _, _)
RECURSIVE minimalConstructorClass(_, _, _)
RECURSIVE firstPassArgs(_, _, _, _, _, _)
RECURSIVE firstPass(_, _, _, _, _)
RECURSIVE secondPassArgs(_, _, _, _, _, _)
RECURSIVE secondPass(_, _, _, _, _)

\* minimalConstructor(const AbstractMetaType*); stack holds the classes whose
\* minimalConstructor calls have not returned
minimalConstructorType(m, type, stack) ==
    IF type = NoValue \/ (type.reference /\ isObjectType(type)) THEN << >>
    ELSE IF type.pattern = "container" THEN containerConstructor(cppSignature(m, type))
    ELSE IF type.pattern = "nativePointer"
        THEN Text_castOpen \o m.entries[type.entry].name \o Text_ptrCastClose
    ELSE IF isPointer(type)
        THEN Text_castScopeOpen \o m.entries[type.entry].name \o Text_ptrCastClose
    ELSE IF isComplex(m.entries[type.entry])
        THEN IF m.entries[type.entry].defaultConstructor = << >>
             THEN minimalConstructorClass(m, findClass(m, type.entry), stack)
             ELSE m.entries[type.entry].defaultConstructor
    ELSE minimalConstructorEntry(m.entries[type.entry])

\* the inner foreach of the first pass: the args of one constructor
firstPassArgs(m, cls, ctor, j, args, stack) ==
    IF j > Len(ctor.arguments) THEN Args(args)
    ELSE LET arg == ctor.arguments[j]
             type == m.entries[arg.type.entry]
         IN  IF arg.type.entry = cls.typeEntry THEN Args(<< >>)
             ELSE IF arg.originalDefaultValueExpression # << >>
                 THEN Args(args \o defaultValueArgs(arg))
             ELSE IF isCppPrimitive(type) \/ isEnumEntry(type) \/ isPointer(arg.type)
                 THEN LET argValue == minimalConstructorType(m, arg.type, stack)
                      IN  IF argValue = Diverges THEN ArgsDiverge
                          ELSE IF argValue = << >> THEN Args(<< >>)
                          ELSE firstPassArgs(m, cls, ctor, j + 1, Append(args, argValue), stack)
             ELSE Args(<< >>)

\* the inner foreach of the second pass: the args of one candidate
secondPassArgs(m, cls, ctor, j, args, stack) ==
    IF j > Len(ctor.arguments) THEN Args(args)
    ELSE LET arg == ctor.arguments[j]
         IN  IF arg.type.entry = cls.typeEntry THEN Args(<< >>)
             ELSE LET argValue == minimalConstructorType(m, arg.type, stack)
                  IN  IF argValue = Diverges THEN ArgsDiverge
                      ELSE IF argValue = << >> THEN Args(<< >>)
                      ELSE secondPassArgs(m, cls, ctor, j + 1, Append(args, argValue), stack)

\* the second pass over the candidates, from the n-th on
secondPass(m, cls, candidates, n, stack) ==
    IF n > Len(candidates) THEN << >>
    ELSE LET r == secondPassArgs(m, cls, cls.constructors[candidates[n]], 1, << >>, stack)
         IN  IF r.diverges THEN Diverges
             ELSE IF r.args # << >> THEN constructorCall(cls, r.args)
             ELSE secondPass(m, cls, candidates, n + 1, stack)

\* the first pass over the constructors in visiting order, from the n-th on;
\* every constructor it passes is a candidate of the second pass
firstPass(m, cls, order, n, stack) ==
    IF n > Len(order) THEN secondPass(m, cls, order, 1, stack)
    ELSE LET r == firstPassArgs(m, cls, cls.constructors[order[n]], 1, << >>, stack)
         IN  IF r.diverges THEN Diverges
             ELSE IF r.args # << >> THEN constructorCall(cls, r.args)
             ELSE firstPass(m, cls, order, n + 1, stack)

\* minimalConstructor(const AbstractMetaClass*)
minimalConstructorClass(m, cls, stack) ==
    IF cls = NoValue THEN << >>
    ELSE IF \E n \in 1..Len(stack) : stack[n] = cls.typeEntry THEN Diverges
    ELSE IF m.entries[cls.typeEntry].defaultConstructor # << >>
        THEN m.entries[cls.typeEntry].defaultConstructor
    ELSE LET maxArgs == computeMaxArgs(cls.constructors, 1, 0)
         IN  IF maxArgs = 0 THEN Text_scope \o cls.qualifiedCppName \o Text_call
             ELSE firstPass(m, cls, visitOrder(cls.constructors, 1, maxArgs), 1,
                            Append(stack, cls.typeEntry))

-----------------------------------------------------------------------------
(* The models minimalConstructor is applied to *)

MaxIndirections == 2
\* the constructors of class A and their arguments together
MaxClassSize == 4

Text_one == <<"1">>
Text_two == <<"2">>

Argument(type, original, effective) ==
    [type |-> type, originalDefaultValueExpression |-> original,
     defaultValueExpression |-> effective]

Constructor(userAdded, private, copy, arguments) ==
    [isUserAdded |-> userAdded, isPrivate |-> private, isCopyConstructor |-> copy,
     arguments |-> arguments]

Class(entry, constructors) ==
    [typeEntry |-> entry, qualifiedCppName |-> <<entry>>, constructors |-> constructors]

IntType == MetaType("int", "primitive", 0, FALSE, FALSE)
ValueA == MetaType("A", "value", 0, FALSE, FALSE)
ValueB == MetaType("B", "value", 0, FALSE, FALSE)
\* a reference to a pointer to an object type: W*&
ObjectPtrRef == MetaType("W", "object", 1, TRUE, FALSE)

\* the arguments a constructor of class A is given
ArgumentKinds ==
    { Argument(IntType, << >>, << >>),
      Argument(ValueB, << >>, << >>),
      Argument(ValueA, << >>, << >>),
      Argument(ObjectPtrRef, << >>, << >>),
      Argument(IntType, Text_one, Text_one),
      Argument(IntType, Text_one, Text_two),
      Argument(IntType, Text_one, << >>) }

\* public, user-added, private, copy
ConstructorFlags ==
    { <<FALSE, FALSE, FALSE>>, <<TRUE, FALSE, FALSE>>, <<FALSE, TRUE, FALSE>>,
      <<FALSE, FALSE, TRUE>> }

\* the shapes of a constructor list: the number of arguments of each
\* constructor; the size of a shape is the number of constructors and of
\* their arguments together
RECURSIVE ShapesOfSize(_)
ShapesOfSize(size) ==
    IF size = 0 THEN {<< >>}
    ELSE UNION { {<<n - 1>> \o rest : rest \in ShapesOfSize(size - n)} : n \in 1..size }

ShapesUpTo(size) == UNION {ShapesOfSize(k) : k \in 0..size}

RECURSIVE SumOf(_)
SumOf(counts) == IF counts = << >> THEN 0 ELSE Head(counts) + SumOf(Tail(counts))

\* the constructor list of a shape, with the flags of each constructor and
\* the arguments of all of them in a row
ConstructorList(shape, flags, arguments) ==
    [k \in 1..Len(shape) |->
        Constructor(flags[k][1], flags[k][2], flags[k][3],
                    SubSeq(arguments, SumOf(SubSeq(shape, 1, k - 1)) + 1,
                           SumOf(SubSeq(shape, 1, k))))]

\* class B: not in the class list; without constructors; constructed from an A
\* by value; with a default constructor declared in its type entry
BShapes == {"absent", "implicit", "fromA", "declared"}

ModelOf(ctorsA, declaredA, bShape) ==
    [ entries |->
        [ int |-> BaseEntries.int, void |-> BaseEntries.void, E |-> BaseEntries.E,
          F |-> BaseEntries.F, P |-> BaseEntries.P, S |-> BaseEntries.S,
          V |-> BaseEntries.V, N |-> BaseEntries.N, W |-> BaseEntries.W,
          A |-> Entry("value", <<"A">>, declaredA),
          B |-> Entry("value", <<"B">>,
                      IF bShape = "declared" THEN <<"B", "(", "0", ")">> ELSE << >>) ],
      classes |->
        IF bShape = "absent"
        THEN [n \in {"A"} |-> Class("A", ctorsA)]
        ELSE [n \in {"A", "B"} |->
                IF n = "A" THEN Class("A", ctorsA)
                ELSE Class("B", IF bShape = "fromA"
                                THEN <<Constructor(FALSE, FALSE, FALSE,
                                                   <<Argument(ValueA, << >>, << >>)>>)>>
                                ELSE << >>)] ]

\* the model a call of minimalConstructor reads: the constructors of class A,
\* the default constructor declared for A, and the shape of class B
InputModel == ModelOf(input.constructors, input.declared, input.classB)

\* a copy constructor of A takes one argument, an A
isCopyConstructorOfA(ctor) ==
    ctor.isCopyConstructor =>
        Len(ctor.arguments) = 1 /\ ctor.arguments[1].type.entry = "A"

InitClass ==
    /\ GenIdle
    /\ \/ \E shape \in ShapesUpTo(MaxClassSize), b \in BShapes :
             \E flags \in [1..Len(shape) -> ConstructorFlags],
                arguments \in [1..SumOf(shape) -> ArgumentKinds] :
                 LET constructors == ConstructorList(shape, flags, arguments)
                 IN  /\ \A k \in 1..Len(constructors) :
                            isCopyConstructorOfA(constructors[k])
                     /\ input = [op |-> "minimalConstructorClass",
                                 constructors |-> constructors,
                                 declared |-> << >>, classB |-> b, cls |-> "A"]
       \/ \E p \in BOOLEAN :
             input = [op |-> "minimalConstructorClass",
                      constructors |-> <<Constructor(FALSE, p, FALSE, << >>)>>,
                      declared |-> <<"A", "(", "7", ")">>, classB |-> "implicit", cls |-> "A"]
    /\ output = NoValue

MinimalConstructorClass ==
    /\ input # NoValue /\ input.op = "minimalConstructorClass"
    /\ output = NoValue
    /\ LET r == minimalConstructorClass(InputModel, findClass(InputModel, input.cls), << >>)
       IN  output' = IF r = Diverges THEN NoReturn ELSE Returned(r)
    /\ UNCHANGED <<genVars, input>>

NextClass == MinimalConstructorClass

SpecClass == InitClass /\ [][NextClass]_vars

\* the usage patterns of an AbstractMetaType and the entries each goes with
Patterns ==
    {"primitive", "enum", "flags", "value", "object", "qobject", "container",
     "nativePointer", "valuePointer"}

EntryNames == {"int", "E", "F", "P", "S", "V", "N", "W", "A", "B"}

KindOf(entry) == IF entry \in {"A", "B"} THEN "value" ELSE BaseEntries[entry].kind

PatternFits(pattern, kind, indirections) ==
    CASE pattern = "primitive" -> kind \in {"cppPrimitive", "userPrimitive"}
      [] pattern = "enum" -> kind = "enum"
      [] pattern = "flags" -> kind = "flags"
      [] pattern = "value" -> kind = "value"
      [] pattern \in {"object", "qobject"} -> kind = "object"
      [] pattern = "container" -> kind = "container"
      [] pattern = "valuePointer" -> kind = "value" /\ indirections = 1
      [] pattern = "nativePointer" -> indirections >= 1

MetaTypes ==
    { t \in [entry : EntryNames, pattern : Patterns, indirections : 0..MaxIndirections,
             reference : BOOLEAN, constant : BOOLEAN] :
        \/ PatternFits(t.pattern, KindOf(t.entry), t.indirections)
        \/ t.entry = "N" /\ t.pattern = "value" }

\* the constructors of class A in the models a type is looked up in
TypeModelConstructors ==
    { << >>,
      <<Constructor(FALSE, FALSE, FALSE, <<Argument(IntType, << >>, << >>)>>)>>,
      <<Constructor(FALSE, FALSE, FALSE, <<Argument(ValueB, << >>, << >>)>>)>> }

InitType ==
    /\ GenIdle
    /\ input \in [op : {"minimalConstructorType"}, constructors : TypeModelConstructors,
                  declared : {<< >>}, classB : BShapes, type : MetaTypes \cup {NoValue}]
    /\ output = NoValue

MinimalConstructorType ==
    /\ input # NoValue /\ input.op = "minimalConstructorType"
    /\ output = NoValue
    /\ LET r == minimalConstructorType(InputModel, input.type, << >>)
       IN  output' = IF r = Diverges THEN NoReturn ELSE Returned(r)
    /\ UNCHANGED <<genVars, input>>

NextType == MinimalConstructorType

SpecType == InitType /\ [][NextType]_vars

-----------------------------------------------------------------------------
(* Generator::replaceTemplateVariables *)

MaxArguments == 10
MaxCodePieces == 3

Text_TYPE == <<"%", "T", "Y", "P", "E">>
Text_RETURN_TYPE == <<"%", "R", "E", "T", "U", "R", "N", "_", "T", "Y", "P", "E">>
Text_FUNCTION_NAME ==
    <<"%", "F", "U", "N", "C", "T", "I", "O", "N", "_", "N", "A", "M", "E">>
Text_ARGUMENT_NAMES ==
    <<"%", "A", "R", "G", "U", "M", "E", "N", "T", "_", "N", "A", "M", "E", "S">>
Text_ARGUMENTS == <<"%", "A", "R", "G", "U", "M", "E", "N", "T", "S">>

\* the name of the argument whose argumentIndex() is i - 1
ArgumentNames == <<"a", "b", "c", "d", "e", "f", "g", "h", "i", "j", "k", "l">>
ArgumentName(i) == <<ArgumentNames[i]>>

\* a function: its owner class, the number of its arguments (all of type int),
\* its return type and its original name
TplFunction(owner, n, type) ==
    [ownerClass |-> owner, arguments |-> [i \in 1..n |-> ArgumentName(i)],
     type |-> type, originalName |-> <<"f", "n">>]

\* writeArgumentNames(s, func, SkipRemovedArguments): the names, comma-joined
writeArgumentNames(func) == join(func.arguments, Text_commaSp)

\* writeFunctionArguments(s, func, SkipDefaultValues | SkipRemovedArguments):
\* the declarations, comma-joined
writeFunctionArguments(m, func) ==
    join([i \in 1..Len(func.arguments) |->
             translateType(m, TrPlainInt, func.ownerClass, {}) \o <<" ">> \o func.arguments[i]],
         Text_commaSp)

\* "%" + QString::number(arg->argumentIndex() + 1)
placeholder(i) == <<"%">> \o number(i)

\* foreach (AbstractMetaArgument *arg, func->arguments()) code.replace(...)
RECURSIVE replaceArguments(_, _, _)
replaceArguments(code, func, i) ==
    IF i > Len(func.arguments) THEN code
    ELSE replaceArguments(replace(code, placeholder(i), func.arguments[i]), func, i + 1)

replaceTemplateVariables(m, code, func) ==
    LET cpp_class == func.ownerClass
        c1 == IF cpp_class # NoValue THEN replace(code, Text_TYPE, cpp_class.name) ELSE code
        c2 == replaceArguments(c1, func, 1)
        c3 == replace(c2, Text_RETURN_TYPE, translateType(m, func.type, cpp_class, {}))
        c4 == replace(c3, Text_FUNCTION_NAME, func.originalName)
        c5 == IF contains(c4, Text_ARGUMENT_NAMES)
              THEN replace(c4, Text_ARGUMENT_NAMES, writeArgumentNames(func))
              ELSE c4
    IN  IF contains(c5, Text_ARGUMENTS)
        THEN replace(c5, Text_ARGUMENTS, writeFunctionArguments(m, func))
        ELSE c5

CodePieces ==
    { <<"%">>, <<"0">>, <<"1">>, <<"2">>, <<"x">>, <<" ">>, Text_TYPE, Text_RETURN_TYPE,
      Text_FUNCTION_NAME, Text_ARGUMENT_NAMES, Text_ARGUMENTS }

RECURSIVE Concats(_, _)
Concats(pieces, n) ==
    IF n = 0 THEN {<< >>}
    ELSE LET shorter == Concats(pieces, n - 1)
         IN  shorter \cup {a \o b : a \in shorter, b \in pieces}

TplCodes == Concats(CodePieces, MaxCodePieces)

TplFunctions ==
    {TplFunction(NoValue, n, NoValue) : n \in 0..MaxArguments}
    \cup {TplFunction([name |-> <<"W">>, isGenericClass |-> FALSE], n, TrPlainInt) :
             n \in 0..MaxArguments}

InitTpl ==
    /\ GenIdle
    /\ input \in [op : {"replaceTemplateVariables"}, code : TplCodes, func : TplFunctions]
    /\ output = NoValue

ReplaceTemplateVariables ==
    /\ input # NoValue /\ input.op = "replaceTemplateVariables"
    /\ output = NoValue
    /\ output' = Returned(replaceTemplateVariables(TrModel, input.code, input.func))
    /\ UNCHANGED <<genVars, input>>

NextTpl == ReplaceTemplateVariables

SpecTpl == InitTpl /\ [][NextTpl]_vars

-----------------------------------------------------------------------------
(* Claims about Generator::minimalConstructor *)

HasReturned == output # NoValue /\ output # NoReturn

TypeCall == input # NoValue /\ input.op = "minimalConstructorType" /\ input.type # NoValue
ClassCall == input # NoValue /\ input.op = "minimalConstructorClass"

NullPointerCast(name) == <<"(", "(", ":", ":">> \o name \o <<"*", ")", "0", ")">>

\* C2 as claimed: every type with one or more indirections, whatever its
\* other attributes, gives "((::N*)0)" for its entry's qualified name N.
C2_EveryPointerShape ==
    (TypeCall /\ output # NoValue /\ input.type.indirections >= 1) =>
        /\ HasReturned
        /\ output.value = NullPointerCast(InputModel.entries[input.type.entry].name)

\* C2: a type with one or more indirections that is not a reference to an
\* object type, not a container and not a native pointer gives "((::N*)0)",
\* whatever its const flag, reference flag and value or object category.
C2_PointerCast ==
    ( /\ TypeCall /\ output # NoValue /\ input.type.indirections >= 1
      /\ ~(input.type.reference /\ input.type.pattern \in {"object", "qobject"})
      /\ input.type.pattern # "container"
      /\ input.type.pattern # "nativePointer" ) =>
        /\ HasReturned
        /\ output.value = NullPointerCast(InputModel.entries[input.type.entry].name)

C2_Witness ==
    /\ TypeCall /\ HasReturned
    /\ input.type.entry = "W" /\ input.type.pattern = "object"
    /\ input.type.indirections = 1 /\ ~input.type.reference /\ input.type.constant
    /\ output.value = <<"(", "(", ":", ":", "W", "*", ")", "0", ")">>

\* the canonical signature of the input type, written out from its attributes
SignatureOf(t, name) ==
    (IF t.constant THEN <<"c", "o", "n", "s", "t", " ">> ELSE << >>)
        \o name \o [i \in 1..t.indirections |-> "*"]
        \o (IF t.reference THEN <<"&">> ELSE << >>)

StripConstAndReference(sig) ==
    LET noConst == IF Len(sig) >= 6 /\ SubSeq(sig, 1, 6) = <<"c", "o", "n", "s", "t", " ">>
                   THEN SubSeq(sig, 7, Len(sig))
                   ELSE sig
    IN  IF noConst # << >> /\ noConst[Len(noConst)] = "&"
        THEN SubSeq(noConst, 1, Len(noConst) - 1)
        ELSE noConst

\* C8: for a container the leading "const " and the trailing & are stripped
\* from the signature first; a stripped name that ends in * gives "0", any
\* other gives "::" + stripped name + "()".
C8_ContainerStrippedFirst ==
    (TypeCall /\ output # NoValue /\ input.type.pattern = "container") =>
        LET stripped == StripConstAndReference(
                            SignatureOf(input.type, InputModel.entries[input.type.entry].name))
        IN  /\ HasReturned
            /\ output.value = IF stripped[Len(stripped)] = "*"
                              THEN <<"0">>
                              ELSE <<":", ":">> \o stripped \o <<"(", ")">>

TheClass == InputModel.classes[input.cls]
DeclaredDefault == InputModel.entries[input.cls].defaultConstructor

\* C1: a class without a declared default constructor whose constructors are
\* all private or copy constructors gives the empty result.
C1_NoCandidateGivesNothing ==
    ( /\ ClassCall /\ output # NoValue
      /\ DeclaredDefault = << >>
      /\ TheClass.constructors # << >>
      /\ \A k \in 1..Len(TheClass.constructors) :
            TheClass.constructors[k].isPrivate \/ TheClass.constructors[k].isCopyConstructor ) =>
        /\ HasReturned
        /\ output.value = << >>

\* C9: every call of minimalConstructor returns, with an expression or with
\* the empty result, also when two value classes need each other by value.
C9_EveryCallReturns == output # NoReturn

\* the constructors of the class the search considers, by position
CandidateIndices ==
    {k \in 1..Len(TheClass.constructors) :
        /\ ~TheClass.constructors[k].isUserAdded
        /\ ~TheClass.constructors[k].isPrivate
        /\ ~TheClass.constructors[k].isCopyConstructor}

ArgCount(k) == Len(TheClass.constructors[k].arguments)

\* the first pass runs: nothing declared, no candidate without arguments
FirstPassRuns ==
    /\ DeclaredDefault = << >>
    /\ CandidateIndices # {}
    /\ \A k \in CandidateIndices : ArgCount(k) > 0

\* the candidate the first pass tries first
IsFirstVisited(c) ==
    \A k \in CandidateIndices :
        ArgCount(c) < ArgCount(k) \/ (ArgCount(c) = ArgCount(k) /\ c <= k)

\* an argument the first pass takes a value for: a built-in primitive passed
\* by value, with no default value
IsPlainPrimitive(arg) ==
    /\ arg.originalDefaultValueExpression = << >>
    /\ arg.type.entry # input.cls
    /\ InputModel.entries[arg.type.entry].kind = "cppPrimitive"
    /\ arg.type.pattern = "primitive" /\ arg.type.indirections = 0
PlainPrimitiveValue(arg) ==
    <<"(", "(">> \o InputModel.entries[arg.type.entry].name \o <<")", "0", ")">>

\* argument j of ctor has an original default value, is not of the class's
\* own type, and no earlier argument aborted the candidate
DefaultReachedAt(ctor, j) ==
    /\ j \in 1..Len(ctor.arguments)
    /\ ctor.arguments[j].originalDefaultValueExpression # << >>
    /\ ctor.arguments[j].type.entry # input.cls
    /\ \A i \in 1..(j - 1) : IsPlainPrimitive(ctor.arguments[i])

Collected(ctor, j) == [i \in 1..(j - 1) |-> PlainPrimitiveValue(ctor.arguments[i])]

CallOf(args) == <<":", ":">> \o TheClass.qualifiedCppName \o <<"(">> \o join(args, <<",", " ">>) \o <<")">>

\* the args of C10 as claimed: the effective text whenever it differs
ClaimedArgs(ctor, j) ==
    Collected(ctor, j)
        \o (IF ctor.arguments[j].defaultValueExpression
                  # ctor.arguments[j].originalDefaultValueExpression
            THEN <<ctor.arguments[j].defaultValueExpression>>
            ELSE << >>)

\* the args of C10 as amended: the effective text when it differs and is not empty
AmendedArgs(ctor, j) ==
    Collected(ctor, j)
        \o (IF /\ ctor.arguments[j].defaultValueExpression
                      # ctor.arguments[j].originalDefaultValueExpression
               /\ ctor.arguments[j].defaultValueExpression # << >>
            THEN <<ctor.arguments[j].defaultValueExpression>>
            ELSE << >>)

FirstPassClaim(ExpectedArgs(_, _)) ==
    (ClassCall /\ output # NoValue /\ FirstPassRuns) =>
        \A c \in CandidateIndices : \A j \in 1..ArgCount(c) :
            LET ctor == TheClass.constructors[c]
            IN  DefaultReachedAt(ctor, j) =>
                  /\ firstPassArgs(InputModel, TheClass, ctor, 1, << >>, <<input.cls>>)
                        = [diverges |-> FALSE, args |-> ExpectedArgs(ctor, j)]
                  /\ IsFirstVisited(c) =>
                        /\ ExpectedArgs(ctor, j) # << >> =>
                              (HasReturned /\ output.value = CallOf(ExpectedArgs(ctor, j)))
                        /\ ExpectedArgs(ctor, j) = << >> =>
                              (HasReturned => output.value # CallOf(ExpectedArgs(ctor, j)))

C10_WitnessEmptyEffective ==
    /\ ClassCall /\ HasReturned /\ FirstPassRuns
    /\ Len(TheClass.constructors) = 1
    /\ ArgCount(1) = 2
    /\ IsPlainPrimitive(TheClass.constructors[1].arguments[1])
    /\ TheClass.constructors[1].arguments[2].originalDefaultValueExpression = <<"1">>
    /\ TheClass.constructors[1].arguments[2].defaultValueExpression = << >>
    /\ output.value = <<":", ":", "A", "(", "(", "(", "i", "n", "t", ")", "0", ")", ")">>

-----------------------------------------------------------------------------
(* Claims about Generator::replaceTemplateVariables *)

PlainText == {<< >>, <<"x">>, <<" ">>}

\* C5: for a function with n arguments and every i in 1..n, an occurrence of
\* the placeholder "%i" is replaced by the name of the i-th argument and by
\* nothing else; "%10" becomes the name of argument 10, not the name of
\* argument 1 followed by 0.
C5_PositionalPlaceholder ==
    (input # NoValue /\ input.op = "replaceTemplateVariables" /\ output # NoValue) =>
        \A i \in 1..Len(input.func.arguments) : \A pre \in PlainText, post \in PlainText :
            input.code = pre \o <<"%">> \o number(i) \o post
                => output.value = pre \o <<ArgumentNames[i]>> \o post

-----------------------------------------------------------------------------
(* formatCode *)

MaxCodeLen == 5
MaxIndent == 1

\* the character QString stores after the last one, which *line.end() reads
Terminator == "NUL"

\* s << indentor: four blanks for each level of indentation
indentorText(indent) == [i \in 1..(4 * indent) |-> " "]

\* line.indexOf(QRegExp("[^\\s]")): 0-based, -1 when every character is a space
indexOfNonSpace(line) ==
    LET hits == {i \in 1..Len(line) : ~isSpace(line[i])}
    IN  IF hits = {} THEN -1 ELSE (CHOOSE i \in hits : \A j \in hits : i <= j) - 1

\* emptyLine.exactMatch(line) for "\\s*[\\r]?[\\n]?\\s*": nothing but spaces
emptyLineExactMatch(line) == \A i \in 1..Len(line) : isSpace(line[i])

\* the first foreach: the leading width of the first line that is not blank
RECURSIVE detectSpacesToRemove(_)
detectSpacesToRemove(lst) ==
    IF lst = << >> THEN 0
    ELSE IF trimmed(Head(lst)) # << >>
        THEN Max(indexOfNonSpace(Head(lst)), 0)
    ELSE detectSpacesToRemove(Tail(lst))

\* while (line.end()->isSpace()) line.chop(1);
RECURSIVE chopWhileEndIsSpace(_)
chopWhileEndIsSpace(line) ==
    IF isSpace(Terminator) THEN chopWhileEndIsSpace(chop(line, 1)) ELSE line

\* for (int i = 0; i < spacesToRemove; ++i) { if (!line[i].isSpace()) break; limit++; }
RECURSIVE countLimit(_, _, _)
countLimit(line, spacesToRemove, i) ==
    IF i < spacesToRemove /\ isSpace(line[i + 1])
    THEN countLimit(line, spacesToRemove, i + 1)
    ELSE i

\* the body of the second foreach: what is written before the endl
formatLine(line, spacesToRemove, indent) ==
    IF line # << >> /\ ~emptyLineExactMatch(line)
    THEN LET chopped == chopWhileEndIsSpace(line)
         IN  indentorText(indent) \o remove(chopped, 0, countLimit(chopped, spacesToRemove, 0))
    ELSE << >>

\* the lines written to the stream, each followed by an endl
formatCode(code, indent) ==
    LET lst == split(code, "\n")
        spacesToRemove == detectSpacesToRemove(lst)
    IN  [n \in 1..Len(lst) |-> formatLine(lst[n], spacesToRemove, indent)]

CodeChars == {" ", "\t", "x", "\n"}
FmtCodes == UNION {[1..n -> CodeChars] : n \in 0..MaxCodeLen}

InitFmt ==
    /\ GenIdle
    /\ input \in [op : {"formatCode"}, code : FmtCodes, indent : 0..MaxIndent]
    /\ output = NoValue

FormatCode ==
    /\ input # NoValue /\ input.op = "formatCode"
    /\ output = NoValue
    /\ output' = Returned(formatCode(input.code, input.indent))
    /\ UNCHANGED <<genVars, input>>

NextFmt == FormatCode

SpecFmt == InitFmt /\ [][NextFmt]_vars

-----------------------------------------------------------------------------
(* Claims about formatCode *)

\* the lines of a text: the maximal runs without a line break
RECURSIVE LinesOf(_)
LinesOf(text) ==
    IF \A i \in 1..Len(text) : text[i] # "\n" THEN <<text>>
    ELSE LET k == CHOOSE i \in 1..Len(text) :
                      text[i] = "\n" /\ \A j \in 1..(i - 1) : text[j] # "\n"
         IN  <<SubSeq(text, 1, k - 1)>> \o LinesOf(SubSeq(text, k + 1, Len(text)))

Whitespace == {" ", "\t", "\n", "\r"}
IsBlankLine(line) == \A i \in 1..Len(line) : line[i] \in Whitespace

\* the length of the run of whitespace a line that is not blank starts with
LeadingRun(line) ==
    (CHOOSE i \in 1..Len(line) :
        line[i] \notin Whitespace /\ \A j \in 1..(i - 1) : line[j] \in Whitespace) - 1

\* a line that is not blank, less the whitespace it ends with
WithoutTrailing(line) ==
    LET last == CHOOSE i \in 1..Len(line) :
                    line[i] \notin Whitespace /\ \A j \in (i + 1)..Len(line) : line[j] \in Whitespace
    IN  SubSeq(line, 1, last)

FirstWidth(lines) ==
    IF \A n \in 1..Len(lines) : IsBlankLine(lines[n]) THEN 0
    ELSE LeadingRun(lines[CHOOSE n \in 1..Len(lines) :
                        ~IsBlankLine(lines[n]) /\ \A k \in 1..(n - 1) : IsBlankLine(lines[k])])

Reindented(line, w, indent) ==
    IF IsBlankLine(line) THEN << >>
    ELSE [i \in 1..(4 * indent) |-> " "]
            \o SubSeq(WithoutTrailing(line), Min(w, LeadingRun(line)) + 1,
                      Len(WithoutTrailing(line)))

\* C6: one output line per input line, in order; with w the leading width of
\* the first line that is not blank, such a line is written with its trailing
\* whitespace removed and min(w, its own leading run) leading characters
\* removed (after the indentation of the indentor); a blank line is written
\* as an empty line.
C6_Reindent ==
    (input # NoValue /\ input.op = "formatCode" /\ output # NoValue) =>
        LET lines == LinesOf(input.code)
        IN  /\ Len(output.value) = Len(lines)
            /\ \A n \in 1..Len(lines) :
                  output.value[n] = Reindented(lines[n], FirstWidth(lines), input.indent)

-----------------------------------------------------------------------------
(* Claims about Generator::translateType *)

\* the case of C7: OriginalName and ExcludeConst, a type that is there, is no
\* array and is not rendered as "int"
TrOriginalExcludeConst ==
    /\ input # NoValue /\ input.op = "translateType"
    /\ input.cType # NoValue
    /\ input.cType.originalTemplateType = NoValue
    /\ input.cType.pattern # "array"
    /\ ~("EnumAsInts" \in input.options /\ input.cType.pattern \in {"enum", "flags"})
    /\ {"OriginalName", "ExcludeConst"} \subseteq input.options

\* the trimmed description, less a trailing & under ExcludeReference
TrBase ==
    LET d == trimmed(input.cType.originalTypeDescription)
    IN  IF "ExcludeReference" \in input.options /\ d # << >> /\ d[Len(d)] = "&"
        THEN SubSeq(d, 1, Len(d) - 1)
        ELSE d

\* the 1-based positions at which the token const starts in s
ConstPositions(s) == {i \in 1..(Len(s) - 4) : SubSeq(s, i, i + 4) = Text_const}
LastConst(s) == CHOOSE i \in ConstPositions(s) : \A j \in ConstPositions(s) : i >= j

\* the last const of s is a trailing qualifier: only pointer and reference
\* marks and blanks follow it, and a blank separates it from the type before
IsTrailingQualifier(s) ==
    /\ ConstPositions(s) # {}
    /\ LastConst(s) > 1
    /\ s[LastConst(s) - 1] = " "
    /\ \A k \in (LastConst(s) + 5)..Len(s) : s[k] \in {"*", "&", " "}

WithoutLastConst(s) == SubSeq(s, 1, LastConst(s) - 1) \o SubSeq(s, LastConst(s) + 5, Len(s))

\* C7: with OriginalName and ExcludeConst the result is the trimmed description
\* (less a trailing & under ExcludeReference) with at most the last const
\* removed, and only when that const is a trailing qualifier; a description
\* without const, of any length, is returned unchanged.
C7_OnlyTrailingConstRemoved ==
    (TrOriginalExcludeConst /\ output # NoValue) =>
        /\ ConstPositions(TrBase) = {} => output.value = TrBase
        /\ ConstPositions(TrBase) # {} =>
              /\ output.value \in {TrBase, WithoutLastConst(TrBase)}
              /\ ~IsTrailingQualifier(TrBase) => output.value = TrBase

-----------------------------------------------------------------------------
(* Claims about Generator::generate *)

\* a class that generate() is to emit, read from the class itself
Eligible(cls) == cls.targetLang /\ cls.hasFileName

\* the positions below k of the classes to emit, in model order
EligibleBelow(k) ==
    SelectSeq([i \in 1..Len(classList) |-> i], LAMBDA i : i < k /\ Eligible(classList[i]))

EmissionsBelow(k) ==
    [n \in 1..Len(EligibleBelow(k)) |-> [hook |-> "generateClass", cls |-> EligibleBelow(k)[n]]]

BetweenClasses == pc \in {"idle", "loop"}

\* C3: the counters start at 0 and never decrease; a run raises numGenerated by
\* the number of classes that pass shouldGenerate and have a file name, and
\* numGeneratedWritten by the number of those whose sink reported a change;
\* between class iterations numGeneratedWritten <= numGenerated; a skipped
\* class changes neither counter.
CountersStep ==
    /\ numGenerated' >= numGenerated
    /\ numGeneratedWritten' >= numGeneratedWritten
    /\ BetweenClasses' => numGeneratedWritten' <= numGenerated'
    /\ (pc = "loop" /\ pc' = "idle") =>
          /\ numGenerated' = runStartGenerated + Len(EligibleBelow(Len(classList) + 1))
          /\ numGeneratedWritten' = runStartWritten + writtenThisRun
    /\ (pc = "loop" /\ pc' = "loop" /\ idx' = idx + 1) =>
          /\ ~Eligible(classList[idx])
          /\ numGenerated' = numGenerated
          /\ numGeneratedWritten' = numGeneratedWritten
    /\ (pc = "loop" /\ idx <= Len(classList) /\ ~Eligible(classList[idx])) =>
          /\ numGenerated' = numGenerated
          /\ numGeneratedWritten' = numGeneratedWritten
C3_Counters ==
    /\ (numGenerated = 0 /\ numGeneratedWritten = 0)
    /\ [][CountersStep]_vars

C3_Witness ==
    /\ pc = "idle" /\ runs = 2
    /\ \E i \in 1..Len(classList) : ~Eligible(classList[i])
    /\ numGenerated = 4
    /\ numGeneratedWritten = 1

\* C4: in a run generateClass is called once for each class that passes
\* shouldGenerate and has a file name, in model order, never for a skipped
\* class; finishGeneration is called once, after the last emission and the
\* last counter update, also when no class is emitted.
C4_HookOrder ==
    /\ pc = "loop" => hookLog = EmissionsBelow(idx)
    /\ pc \in {"done", "count"} => hookLog = EmissionsBelow(idx + 1)
    /\ (pc = "idle" /\ runs > 0) =>
          /\ hookLog = EmissionsBelow(Len(classList) + 1)
                          \o <<[hook |-> "finishGeneration", cls |-> 0]>>
          /\ numGenerated = runStartGenerated + Len(EligibleBelow(Len(classList) + 1))
          /\ numGeneratedWritten = runStartWritten + writtenThisRun
    /\ (pc = "idle" /\ runs = 0) => hookLog = << >>

C4_Witness ==
    /\ pc = "idle" /\ runs > 0
    /\ Len(classList) = 3
    /\ ~Eligible(classList[1]) /\ Eligible(classList[2]) /\ Eligible(classList[3])
    /\ Len(hookLog) = 3

\* the finish hook is also called when every class is skipped
C4_WitnessAllSkipped ==
    /\ pc = "idle" /\ runs > 0 /\ Len(classList) > 0 /\ Len(hookLog) = 1

=============================================================================
